---- MODULE Spec2Model ----
(***************************************************************************)
(* cargo-try: install a crate into a temporary directory, run the          *)
(* same-named executable once with pass-through arguments, relay its       *)
(* status, discard the directory.  Model of src/main.rs.                   *)
(*                                                                         *)
(* Strings are sequences of character codes ("a" is <<97>>); paths are     *)
(* sequences of components.  An Option is a sequence of length 0 or 1.     *)
(* The info! log lines have no effect on the modelled state and are left   *)
(* out.                                                                    *)
(***************************************************************************)
EXTENDS Integers, Sequences, FiniteSets, TLC

VARIABLES args, pc, fs, exec_file, effects, stdout, result, failed_at, exit_code

vars == <<args, pc, fs, exec_file, effects, stdout, result, failed_at, exit_code>>

(***************************************************************************)
(* Bounds of the model.                                                    *)
(***************************************************************************)
MaxNameLen == 3
MaxArgs == 2
MaxEntries == 2

None == <<>>
Some(x) == <<x>>

RECURSIVE SeqsUpTo(_, _)
SeqsUpTo(S, n) ==
  IF n = 0 THEN {<<>>}
  ELSE LET shorter == SeqsUpTo(S, n - 1)
       IN shorter \cup {Append(s, x) : s \in {t \in shorter : Len(t) = n - 1}, x \in S}

RECURSIVE Count(_, _)
Count(s, op) ==
  IF s = <<>> THEN 0
  ELSE (IF Head(s).op = op THEN 1 ELSE 0) + Count(Tail(s), op)

(***************************************************************************)
(* valid_crate_name                                                        *)
(***************************************************************************)
\* char::is_ascii_alphanumeric: '0'..='9' | 'A'..='Z' | 'a'..='z'
is_ascii_alphanumeric(c) ==
  \/ (48 <= c /\ c <= 57)
  \/ (65 <= c /\ c <= 90)
  \/ (97 <= c /\ c <= 122)

\* seeded fault: the first character is checked like the later ones
valid_crate_name_first_as_rest(name) ==
  /\ Len(name) > 0
  /\ \A i \in 1..Len(name) :
       is_ascii_alphanumeric(name[i]) \/ name[i] = 95 \/ name[i] = 45

valid_crate_name(name) ==
  IF Len(name) = 0 THEN FALSE
  ELSE LET first == Head(name)
           chars == Tail(name)
       IN /\ is_ascii_alphanumeric(first)
          /\ \A i \in 1..Len(chars) :
               is_ascii_alphanumeric(chars[i]) \/ chars[i] = 95 \/ chars[i] = 45

(***************************************************************************)
(* std::process::ExitStatus, Command; std::path                            *)
(***************************************************************************)
Exited(c) == [kind |-> "exited", val |-> c]
Signaled(s) == [kind |-> "signaled", val |-> s]
NoStatus == [kind |-> "none", val |-> 0]

\* ExitStatus::code: Some(c) for a process that exited, None for a signal
code(st) == IF st.kind = "exited" THEN Some(st.val) ELSE None

\* Option::unwrap_or_default on an i32
unwrap_or_default(opt) == IF opt = None THEN 0 ELSE opt[1]

\* seeded fault: success taken from code().unwrap_or_default() == 0
success_of_defaulted_code(st) == unwrap_or_default(code(st)) = 0

\* ExitStatus::success
success(st) == code(st) = Some(0)

\* Path::join / Path as an OsStr argument ('/' is 47)
RECURSIVE PathStr(_)
PathStr(p) ==
  IF p = <<>> THEN <<>>
  ELSE IF Len(p) = 1 THEN p[1]
  ELSE p[1] \o <<47>> \o PathStr(Tail(p))

join(p, component) == Append(p, component)

Command_new(program) == [program |-> program, args |-> <<>>, current_dir |-> None]

arg(cmd, a) == [cmd EXCEPT !.args = Append(@, a)]

current_dir(cmd, d) == [cmd EXCEPT !.current_dir = Some(PathStr(d))]

\* seeded fault: the arguments are pushed in front, which reverses them
RECURSIVE cmd_args_reversed(_, _)
cmd_args_reversed(cmd, as) ==
  IF as = <<>> THEN cmd
  ELSE cmd_args_reversed([cmd EXCEPT !.args = <<Head(as)>> \o @], Tail(as))

\* Command::args: arg() for each element, in order
RECURSIVE cmd_args(_, _)
cmd_args(cmd, as) ==
  IF as = <<>> THEN cmd
  ELSE cmd_args(arg(cmd, Head(as)), Tail(as))

Cargo == <<99, 97, 114, 103, 111>>           \* "cargo"
InstallWord == <<105, 110, 115, 116, 97, 108, 108>>  \* "install"
RootFlag == <<45, 45, 114, 111, 111, 116>>   \* "--root"
BinName == <<98, 105, 110>>                  \* "bin"
CwdName == <<99, 119, 100>>                  \* "cwd"

create_crate_install_command(install_crate, path) ==
  LET cmd == Command_new(Cargo)
  IN arg(arg(arg(arg(cmd, InstallWord), install_crate), RootFlag), PathStr(path))

(***************************************************************************)
(* anyhow errors: a chain of layers, outermost context first               *)
(***************************************************************************)
Layer(msg, os, n, name, at_path) ==
  [msg |-> msg, os |-> os, n |-> n, name |-> name, at_path |-> at_path]

anyhow(msg) == <<Layer(msg, "none", 0, <<>>, FALSE)>>
anyhow_code(msg, n) == <<Layer(msg, "none", n, <<>>, FALSE)>>
anyhow_name(msg, name) == <<Layer(msg, "none", 0, name, FALSE)>>
io_error(e) == <<Layer("io", e, 0, <<>>, FALSE)>>
io_error_at_path(e) == <<Layer("io", e, 0, <<>>, TRUE)>>
context(err, msg) == anyhow(msg) \o err

Ok(st) == [kind |-> "Ok", status |-> st, path |-> <<>>, err |-> <<>>]
OkPath(p) == [kind |-> "Ok", status |-> NoStatus, path |-> p, err |-> <<>>]
Err(e) == [kind |-> "Err", status |-> NoStatus, path |-> <<>>, err |-> e]
Panic(e) == [kind |-> "Panic", status |-> NoStatus, path |-> <<>>, err |-> e]
NoResult == [kind |-> "None", status |-> NoStatus, path |-> <<>>, err |-> <<>>]

(***************************************************************************)
(* find_first_executable                                                   *)
(***************************************************************************)
\* Path::file_name: None for a path that ends in ".."
file_name(p) ==
  IF p = <<>> \/ p[Len(p)] = <<46, 46>> THEN None ELSE Some(p[Len(p)])

LastDot(f) ==
  LET dots == {i \in 1..Len(f) : f[i] = 46}
  IN IF dots = {} THEN 0 ELSE CHOOSE i \in dots : \A j \in dots : j <= i

\* Path::file_stem: the file name up to its last '.', the whole name when it
\* has no '.' or only begins with one
file_stem(p) ==
  LET fn == file_name(p)
  IN IF fn = None THEN None
     ELSE LET f == fn[1]
              d == LastDot(f)
          IN IF d <= 1 THEN Some(f) ELSE Some(SubSeq(f, 1, d - 1))

\* OsStr::to_string_lossy: a byte that is not UTF-8 (modelled as 255) becomes
\* U+FFFD
to_string_lossy(s) == [i \in 1..Len(s) |-> IF s[i] = 255 THEN 65533 ELSE s[i]]

IsPrefix(a, b) == Len(a) <= Len(b) /\ SubSeq(b, 1, Len(a)) = a

\* seeded fault: a file whose stem only starts with the crate name is taken
RECURSIVE scan_prefix(_, _, _)
scan_prefix(crate_name, search_dir, entries) ==
  IF entries = <<>>
  THEN Err(anyhow_name("Could not find crate with name", crate_name))
  ELSE LET path == Head(entries)
       IN IF ~path.ok THEN Panic(io_error("EIO"))
          ELSE IF IsPrefix(crate_name,
                           to_string_lossy(file_stem(join(search_dir, path.name))[1]))
          THEN OkPath(join(search_dir, path.name))
          ELSE scan_prefix(crate_name, search_dir, Tail(entries))

\* the for loop over fs::read_dir's entries
RECURSIVE scan(_, _, _)
scan(crate_name, search_dir, entries) ==
  IF entries = <<>>
  THEN Err(anyhow_name("Could not find crate with name", crate_name))
  ELSE LET path == Head(entries)
       IN IF ~path.ok THEN Panic(io_error("EIO"))        \* path.unwrap()
          ELSE LET stem == file_stem(join(search_dir, path.name))
               IN IF stem = None THEN Panic(anyhow("unwrap on None"))
                  ELSE IF to_string_lossy(stem[1]) = crate_name
                  THEN OkPath(join(search_dir, path.name))
                  ELSE scan(crate_name, search_dir, Tail(entries))

\* bin is the state of search_dir: bin.err is the error fs::read_dir gives
\* ("none" when the directory can be read), bin.entries its entries in
\* iteration order
find_first_executable(crate_name, search_dir, bin) ==
  IF bin.err # "none" THEN Err(io_error(bin.err))
  ELSE scan(crate_name, search_dir, bin.entries)

(***************************************************************************)
(* The environment: requests, the installed bin/ directory, OS errors,     *)
(* exit statuses                                                           *)
(***************************************************************************)
\* boundary characters of the grammar: / 0 9 : @ A Z [ _ ` a z { - space e-acute
Chars == {47, 48, 57, 58, 64, 65, 90, 91, 95, 96, 97, 122, 123, 45, 32, 233}

\* "a", "ab", "-a", "a b", ""
PkgNames == {<<97>>, <<97, 98>>, <<45, 97>>, <<97, 32, 98>>, <<>>}

\* "99", "-v"
SubArgValues == {<<57, 57>>, <<45, 118>>}

Requests(names, n) ==
  [install_crate : names, sub_args : SeqsUpTo(SubArgValues, n)]

OsErrors == {"ENOENT", "EACCES"}

File(name) == [ok |-> TRUE, name |-> name, children |-> <<>>]
SubDir(name, children) == [ok |-> TRUE, name |-> name, children |-> children]
Unreadable == [ok |-> FALSE, name |-> <<>>, children |-> <<>>]

\* what cargo install may leave in bin/: a, a.exe, ab, .a, a.b.c, a<bad byte>,
\* a directory sub/ holding a file a, and an entry whose read fails
DirEntries ==
  { File(<<97>>), File(<<97, 46, 101, 120, 101>>), File(<<97, 98>>),
    File(<<46, 97>>), File(<<97, 46, 98, 46, 99>>), File(<<97, 255>>),
    SubDir(<<115, 117, 98>>, << <<97>> >>), Unreadable }

Distinct(s) == \A i, j \in 1..Len(s) : i # j => s[i] # s[j]

BinStates ==
  {[err |-> e, entries |-> <<>>] : e \in OsErrors}
    \cup {[err |-> "none", entries |-> l] :
            l \in {m \in SeqsUpTo(DirEntries, MaxEntries) : Distinct(m)}}

NoBin == [err |-> "ENOENT", entries |-> <<>>]

InstallStatuses == {Exited(0), Exited(101), Signaled(9)}
ChildStatuses == {Exited(0), Exited(1), Exited(42), Signaled(15)}

\* the temporary directory tempdir() creates
TmpRoot == << <<116, 109, 112>>, <<46, 116, 109, 112, 88>> >>   \* tmp/.tmpX

NoFs == [root |-> FALSE, bin |-> NoBin, cwd |-> FALSE]

NoCmd == Command_new(<<>>)

\* artifact says how a spawned executable behaves: "status_return" or "any"
Effect(op, path, cmd, status, artifact) ==
  [op |-> op, path |-> PathStr(path), cmd |-> cmd, status |-> status,
   artifact |-> artifact]

FsEffect(op, path) == Effect(op, path, NoCmd, NoStatus, "none")

\* the exit code of a Rust process whose main thread panicked
PanicExit == 101

(***************************************************************************)
(* The test artifact status-return: exits 42 without arguments, with the   *)
(* value of its first argument otherwise                                   *)
(***************************************************************************)
RECURSIVE ParseInt(_, _)
ParseInt(s, acc) ==
  IF s = <<>> THEN Some(acc)
  ELSE IF 48 <= Head(s) /\ Head(s) <= 57
  THEN ParseInt(Tail(s), 10 * acc + (Head(s) - 48))
  ELSE None

StatusReturnApplies(argv) ==
  argv = <<>> \/ (argv[1] # <<>> /\ ParseInt(argv[1], 0) # None)

StatusReturn(argv) ==
  IF argv = <<>> THEN Exited(42) ELSE Exited(ParseInt(argv[1], 0)[1] % 256)

(***************************************************************************)
(* State                                                                   *)
(*   args       the parsed Args                                            *)
(*   pc         where main is                                              *)
(*   fs         the temporary directory: root exists, bin/, cwd/ exists    *)
(*   exec_file  the path find_first_executable gave                        *)
(*   effects    the file system and process operations carried out so far  *)
(*   stdout     what println! wrote                                        *)
(*   result     what main_body returned (or the panic that unwound it)     *)
(*   failed_at  the error kind of the step that failed ("none" before)     *)
(*   exit_code  the exit status of the process                             *)
(***************************************************************************)
InitWith(names, n) ==
  /\ args \in Requests(names, n)
  /\ pc = "main"
  /\ fs = NoFs
  /\ exec_file = None
  /\ effects = <<>>
  /\ stdout = <<>>
  /\ result = NoResult
  /\ failed_at = "none"
  /\ exit_code = None

Init == InitWith(PkgNames, MaxArgs)

\* seeded fault: the directory is kept (TempDir::into_path)
KeepTempDir(f) == f

\* TempDir::drop: the whole tree is removed
DropTempDir(f) == NoFs

(***************************************************************************)
(* main_body, step by step.  An early return (the ? operator, return Err)  *)
(* and a panic that unwinds both drop dir, so the step that fails also     *)
(* removes the temporary directory.                                        *)
(***************************************************************************)
Removed == FsEffect("remove_dir_all", TmpRoot)

\* the error each failing step returns
InvalidNameError == anyhow("Invalid crate name provided")
SandboxError(e) == io_error_at_path(e)
InstallSpawnError(e) == context(io_error(e), "Failed to execute cargo install")
InstallFailedError(output) ==
  anyhow_code("Failed to install, returned with status code",
              unwrap_or_default(code(output)))
NotFoundError(err) ==
  context(err, "Failed to find same-named executable after install")
CwdError(e) == io_error(e)
TargetSpawnError(e) == io_error(e)

\* return Err(e) once dir exists; f is the file system at that point
ReturnErr(e, kind, f, done) ==
  /\ result' = Err(e)
  /\ failed_at' = kind
  /\ fs' = DropTempDir(f)
  /\ effects' = effects \o done \o <<Removed>>
  /\ pc' = "returned"

\* seeded fault: an invalid name is reported but the pipeline goes on
ValidateGoesOn ==
  /\ pc = "main"
  /\ IF ~valid_crate_name(args.install_crate)
     THEN stdout' = Append(stdout, "Invalid crate name provided")
     ELSE stdout' = stdout
  /\ pc' = "tempdir"
  /\ UNCHANGED <<args, fs, exec_file, effects, result, failed_at, exit_code>>

Validate ==
  /\ pc = "main"
  /\ IF ~valid_crate_name(args.install_crate)
     THEN /\ stdout' = Append(stdout, "Invalid crate name provided")
          /\ result' = Err(InvalidNameError)
          /\ failed_at' = "InvalidPackageName"
          /\ pc' = "returned"
     ELSE /\ pc' = "tempdir"
          /\ UNCHANGED <<stdout, result, failed_at>>
  /\ UNCHANGED <<args, fs, exec_file, effects, exit_code>>

\* tempdir()?: the io::Error the tempfile crate gives names the path it could
\* not create, which no other error of the pipeline does
Tempdir ==
  /\ pc = "tempdir"
  /\ \/ /\ fs' = [fs EXCEPT !.root = TRUE]
        /\ effects' = Append(effects, FsEffect("create_dir", TmpRoot))
        /\ pc' = "install"
        /\ UNCHANGED <<result, failed_at>>
     \/ \E e \in OsErrors :
          /\ result' = Err(SandboxError(e))
          /\ failed_at' = "SandboxCreation"
          /\ pc' = "returned"
          /\ UNCHANGED <<fs, effects>>
  /\ UNCHANGED <<args, exec_file, stdout, exit_code>>

Install ==
  /\ pc = "install"
  /\ LET cmd == create_crate_install_command(args.install_crate, TmpRoot)
     IN \/ \E e \in OsErrors :
             ReturnErr(InstallSpawnError(e), "InstallSpawn", fs,
                       <<Effect("spawn_failed", <<cmd.program>>, cmd, NoStatus, "none")>>)
        \/ \E output \in InstallStatuses, bin \in BinStates :
             LET ran == Effect("spawn", <<cmd.program>>, cmd, output, "cargo")
                 installed == [fs EXCEPT !.bin = bin]
             IN IF ~success(output)
                THEN ReturnErr(InstallFailedError(output), "InstallFailed",
                               installed, <<ran>>)
                ELSE /\ fs' = installed
                     /\ effects' = Append(effects, ran)
                     /\ pc' = "find"
                     /\ UNCHANGED <<result, failed_at>>
  /\ UNCHANGED <<args, exec_file, stdout, exit_code>>

Find ==
  /\ pc = "find"
  /\ LET search_dir == join(TmpRoot, BinName)
         found == find_first_executable(args.install_crate, search_dir, fs.bin)
         read == FsEffect("read_dir", search_dir)
     IN CASE found.kind = "Ok" ->
               /\ exec_file' = Some(found.path)
               /\ effects' = Append(effects, read)
               /\ pc' = "cwd"
               /\ UNCHANGED <<fs, result, failed_at>>
          [] found.kind = "Err" ->
               /\ ReturnErr(NotFoundError(found.err), "ExecutableNotFound", fs,
                            <<read>>)
               /\ UNCHANGED exec_file
          [] found.kind = "Panic" ->
               /\ result' = found
               /\ failed_at' = "Panic"
               /\ fs' = DropTempDir(fs)
               /\ effects' = effects \o <<read, Removed>>
               /\ pc' = "unwound"
               /\ UNCHANGED exec_file
  /\ UNCHANGED <<args, stdout, exit_code>>

CreateCwd ==
  /\ pc = "cwd"
  /\ LET cwd == join(TmpRoot, CwdName)
     IN \/ /\ fs' = [fs EXCEPT !.cwd = TRUE]
           /\ effects' = Append(effects, FsEffect("create_dir", cwd))
           /\ pc' = "run"
           /\ UNCHANGED <<result, failed_at>>
        \/ \E e \in OsErrors : ReturnErr(CwdError(e), "CwdCreation", fs, <<>>)
  /\ UNCHANGED <<args, exec_file, stdout, exit_code>>

\* seeded fault: a child killed by a signal is reported as an error
main_body_return_signal_err(inner_status) ==
  IF code(inner_status) = None
  THEN Err(anyhow("terminated by signal"))
  ELSE Ok(inner_status)

\* Ok(inner_status)
main_body_return(inner_status) == Ok(inner_status)

RunChild ==
  /\ pc = "run"
  /\ LET cwd == join(TmpRoot, CwdName)
         inner_cmd == cmd_args(current_dir(Command_new(PathStr(exec_file[1])), cwd),
                               args.sub_args)
     IN \/ \E e \in OsErrors :
             ReturnErr(TargetSpawnError(e), "TargetSpawn", fs,
                       <<Effect("spawn_failed", <<inner_cmd.program>>, inner_cmd,
                                NoStatus, "none")>>)
        \/ \E artifact \in {"status_return", "any"} :
             \E inner_status \in
                  IF artifact = "any" THEN ChildStatuses
                  ELSE IF StatusReturnApplies(inner_cmd.args)
                  THEN {StatusReturn(inner_cmd.args)}
                  ELSE {} :
               /\ result' = main_body_return(inner_status)
               /\ fs' = DropTempDir(fs)
               /\ effects' = effects \o
                    <<Effect("spawn", <<inner_cmd.program>>, inner_cmd, inner_status,
                             artifact),
                      Removed>>
               /\ pc' = "returned"
               /\ UNCHANGED failed_at
  /\ UNCHANGED <<args, exec_file, stdout, exit_code>>

(***************************************************************************)
(* main: main_body(&args).unwrap(); then main ends                         *)
(***************************************************************************)
\* seeded fault: the error is dropped (let _ = main_body(&args))
main_exit_ignoring(res) == 0

main_exit(res) == IF res.kind = "Ok" THEN 0 ELSE PanicExit

MainExit ==
  /\ pc \in {"returned", "unwound"}
  /\ exit_code' = Some(main_exit(result))
  /\ pc' = "exited"
  /\ UNCHANGED <<args, fs, exec_file, effects, stdout, result, failed_at>>

Next == Validate \/ Tempdir \/ Install \/ Find \/ CreateCwd \/ RunChild \/ MainExit

Spec == Init /\ [][Next]_vars

\* valid_crate_name on every string over Chars up to MaxNameLen
InitValid == InitWith(SeqsUpTo(Chars, MaxNameLen), 0)

NextValid == Validate \/ MainExit

SpecValid == InitValid /\ [][NextValid]_vars

(***************************************************************************)
(* Properties                                                              *)
(***************************************************************************)
Finished == pc \in {"returned", "unwound", "exited"}

CwdPath == join(TmpRoot, CwdName)

IsCargo(ef) == ef.cmd.program = Cargo

\* the spawns of the located executable (attempted or carried out)
TargetSpawns ==
  {i \in 1..Len(effects) :
     effects[i].op \in {"spawn", "spawn_failed"} /\ ~IsCargo(effects[i])}

TargetRuns == {i \in TargetSpawns : effects[i].op = "spawn"}

SandboxCreated ==
  \E i \in 1..Len(effects) : effects[i] = FsEffect("create_dir", TmpRoot)

AsciiAlnum == (48..57) \cup (65..90) \cup (97..122)

\* ^[A-Za-z0-9][A-Za-z0-9_-]*$
ValidGrammar(s) ==
  /\ s # <<>>
  /\ s[1] \in AsciiAlnum
  /\ \A i \in 2..Len(s) : s[i] \in AsciiAlnum \cup {95, 45}

\* C1: when every stage succeeds and the child exits with code c, the exit
\* status of the tool's own process is c.
C1_ExitStatusIsChildStatus ==
  (pc = "exited" /\ result.kind = "Ok" /\ result.status.kind = "exited")
    => exit_code = Some(result.status.val)

\* C2: once the pipeline has ended, in whatever way, a temporary directory that
\* was created no longer exists (nor anything in it), and it was removed
\* exactly once; it is never removed more than once.
C2_SandboxRemoved ==
  /\ Count(effects, "remove_dir_all") <= 1
  /\ (SandboxCreated /\ Finished) =>
       /\ fs = NoFs
       /\ Count(effects, "remove_dir_all") = 1
       /\ effects[Len(effects)] = Removed
  /\ (SandboxCreated /\ ~Finished) => fs.root

C2_Witness ==
  /\ pc = "returned"
  /\ failed_at = "TargetSpawn"
  /\ SandboxCreated
  /\ ~fs.root

\* C3: valid_crate_name accepts a name exactly when it is non-empty, starts
\* with an ASCII letter or digit and goes on with ASCII letters, digits, '_'
\* and '-' only.
C3_ValidCrateName ==
  pc # "main" =>
    (result # Err(InvalidNameError) <=> ValidGrammar(args.install_crate))

C3_Witness ==
  /\ pc = "tempdir"
  /\ Len(args.install_crate) = 3
  /\ args.install_crate[1] = 48
  /\ args.install_crate[2] = 45
  /\ args.install_crate[3] = 95

\* C4: with an invalid package name the pipeline ends with an error and has
\* created no directory, invoked no command and located no executable.
C4_InvalidNameNoEffects ==
  (pc # "main" /\ ~ValidGrammar(args.install_crate)) =>
    /\ pc \in {"returned", "exited"}
    /\ result = Err(InvalidNameError)
    /\ effects = <<>>
    /\ fs = NoFs
    /\ exec_file = None

C4_Witness ==
  /\ pc = "exited"
  /\ args.install_crate = <<45, 97>>
  /\ result.kind = "Err"
  /\ effects = <<>>

\* C5: when cargo install ends with a status other than exit code 0 (a
\* non-zero code or a signal), the pipeline has ended with the install-failure
\* error, and after the install nothing happened but the removal of the
\* temporary directory: no scan, no cwd, no second install, no executable run.
C5_InstallFailureStops ==
  \A i \in 1..Len(effects) :
    (effects[i].op = "spawn" /\ IsCargo(effects[i]) /\ effects[i].status # Exited(0))
      => /\ pc \in {"returned", "exited"}
         /\ result.kind = "Err"
         /\ Len(result.err) = 1
         /\ result.err[1].msg = "Failed to install, returned with status code"
         /\ Len(effects) = i + 1
         /\ effects[i + 1] = Removed
         /\ \A j \in 1..Len(effects) :
              effects[j].op \in {"spawn", "spawn_failed"} => j = i
         /\ exec_file = None

C5_Witness ==
  /\ pc = "returned"
  /\ failed_at = "InstallFailed"
  /\ \E i \in 1..Len(effects) :
       effects[i].op = "spawn" /\ effects[i].status = Signaled(9)

\* the file names whose stem is name, for a name without '.': the name itself,
\* or the name, a '.', and an extension without '.'
StemIs(f, name) ==
  \/ f = name
  \/ /\ Len(f) > Len(name)
     /\ SubSeq(f, 1, Len(name)) = name
     /\ f[Len(name) + 1] = 46
     /\ \A i \in (Len(name) + 2)..Len(f) : f[i] # 46

\* the scan of bin/ as a step: what pc = "find" leads to
C6_Step ==
  pc = "find" =>
    LET entries == fs.bin.entries
        name == args.install_crate
        Matches(i) == entries[i].ok /\ StemIs(entries[i].name, name)
        First == {i \in 1..Len(entries) :
                    Matches(i) /\ \A j \in 1..(i - 1) : entries[j].ok /\ ~Matches(j)}
    IN /\ pc' = "cwd" =>
            /\ fs.bin.err = "none"
            /\ \E i \in First :
                 exec_file' = Some(join(join(TmpRoot, BinName), entries[i].name))
            /\ UNCHANGED <<fs, result>>
       /\ (First # {} /\ fs.bin.err = "none") => pc' = "cwd"
       /\ (fs.bin.err # "none" \/ \A i \in 1..Len(entries) : entries[i].ok /\ ~Matches(i))
            => /\ pc' = "returned"
               /\ result'.kind = "Err"
               /\ result'.err[1].msg = "Failed to find same-named executable after install"
               /\ effects' = effects \o <<FsEffect("read_dir", join(TmpRoot, BinName)), Removed>>
               /\ exec_file' = None

C7_ArgsPassedVerbatim ==
  \A i \in TargetSpawns :
    /\ effects[i].cmd.args = args.sub_args
    /\ effects[i].cmd.current_dir = Some(PathStr(CwdPath))
    /\ effects[i].cmd.program = PathStr(exec_file[1])
    /\ i > 1 /\ effects[i - 1] = FsEffect("create_dir", CwdPath)
    /\ (/\ effects[i].artifact = "status_return"
        /\ args.sub_args # <<>>
        /\ args.sub_args[1] = <<57, 57>>)
         => (result.kind = "Ok" /\ code(result.status) = Some(99))

C7_Witness ==
  /\ pc = "returned"
  /\ args.sub_args = << <<57, 57>>, <<45, 118>> >>
  /\ \E i \in TargetRuns : effects[i].artifact = "status_return"
  /\ code(result.status) = Some(99)

\* C8: once the child was spawned main_body returns Ok with the child's status
\* as it is: its exit code (42 for status-return without arguments), or no code
\* for a child killed by a signal.
C8_StatusUnmodified ==
  \A i \in TargetRuns :
    /\ result.kind = "Ok"
    /\ result.status = effects[i].status
    /\ code(result.status) = code(effects[i].status)
    /\ (effects[i].artifact = "status_return" /\ args.sub_args = <<>>)
         => code(result.status) = Some(42)

C8_Witness ==
  /\ pc = "returned"
  /\ TargetRuns # {}
  /\ result.kind = "Ok"
  /\ code(result.status) = None

ErrorKinds ==
  {"InvalidPackageName", "SandboxCreation", "InstallSpawn", "InstallFailed",
   "ExecutableNotFound", "CwdCreation", "TargetSpawn"}

\* the errors a failure of each kind can surface
ErrorsOf(kind) ==
  CASE kind = "InvalidPackageName" -> {InvalidNameError}
    [] kind = "SandboxCreation" ->
         {SandboxError(e) : e \in OsErrors}
    [] kind = "InstallSpawn" -> {InstallSpawnError(e) : e \in OsErrors}
    [] kind = "InstallFailed" -> {InstallFailedError(st) : st \in InstallStatuses}
    [] kind = "ExecutableNotFound" ->
         {NotFoundError(io_error(e)) : e \in OsErrors}
           \cup {NotFoundError(anyhow_name("Could not find crate with name", n)) :
                   n \in PkgNames}
    [] kind = "CwdCreation" -> {CwdError(e) : e \in OsErrors}
    [] kind = "TargetSpawn" -> {TargetSpawnError(e) : e \in OsErrors}

\* C9: the error a failure surfaces identifies the step that failed: no
\* failure of another kind surfaces the same error.
C9_ErrorsIdentifyStage ==
  result.kind = "Err" =>
    \A kind \in ErrorKinds \ {failed_at} : result.err \notin ErrorsOf(kind)

\* C10: a pipeline that failed ends the process with a non-zero exit status,
\* and its result holds no status of the artifact.
C10_FailureExitsNonZero ==
  /\ failed_at # "none" <=> result.kind \in {"Err", "Panic"}
  /\ (pc = "exited" /\ failed_at # "none") =>
       /\ exit_code # None
       /\ exit_code[1] # 0
       /\ result.status = NoStatus
       /\ TargetRuns = {}

C10_Witness ==
  /\ pc = "exited"
  /\ failed_at = "ExecutableNotFound"
  /\ exit_code = Some(PanicExit)
====
